---- MODULE Spec2Model ----
(***************************************************************************)
(* Model of the Telegram file download bot (telegram_download_bot.py):     *)
(* the conversation handlers, the streaming download, the progress         *)
(* throttling, the size check, the upload retry loop with its heartbeat    *)
(* task, and the terminal cleanup of start_download.                       *)
(*                                                                         *)
(* Byte counts are in KiB (1024 bytes): 2 GiB = 2 * 1024 * 1024 KiB.       *)
(* Updates are processed one at a time (Application.builder() without      *)
(* concurrent_updates), so at most one handler runs at any moment.         *)
(***************************************************************************)
EXTENDS Integers, Sequences, FiniteSets, TLC

\* ------------------------------------------------------------- bounds
\* wall-clock time (time.time()) at which a transfer starts; any value >= 5
WallStart == 10
\* the wall clock is followed for MaxWallSpan seconds after a transfer starts
MaxWallSpan == 6
\* the event-loop clock is followed up to MaxElapsed seconds into an attempt
MaxElapsed == 2
MaxLongElapsed == 4
\* read errors are injected into the first MaxFailChunk chunk reads
MaxFailChunk == 3
\* transfers started in one run
MaxTransfers == 1

\* ---------------------------------------------------- program constants
WAITING_FOR_LINK == 0
WAITING_FOR_FILENAME == 1
\* ConversationHandler.END
END == -1
\* 1 MiB chunks, in KiB
chunk_size == 1024
\* 2 GiB, in KiB
MAX_TELEGRAM_SIZE == 2 * 1024 * 1024
max_retries == 3
\* progress step of the known-total policy, in percent
PROGRESS_STEP == 2
\* the unknown-total policy emits every 10 MB, in KiB
UNKNOWN_STEP == 10 * 1024
\* liveness floor of the progress callback, in seconds
TIME_FLOOR == 5
\* seconds of backoff per failed attempt
BACKOFF_UNIT == 10
\* the heartbeat renders at most every 2 seconds and sleeps 1 second
HEARTBEAT_EVERY == 2
HEARTBEAT_SLEEP == 1

None == "None"
\* None where the other values are numbers
NoneInt == -2

Users == {1, 2}
\* A conversation of the ConversationHandler is kept per chat and user. The
\* handlers below take its key: a user id for the private chat of that user,
\* and SecondChat + user id for a second chat the same user writes in.
SecondChat == 10
\* update.effective_user.id of an update of conversation k
UserOf(k) == IF k > SecondChat THEN k - SecondChat ELSE k

\* ------------------------------------------------- the remote resources
\* Content-Length absent
NoLength == -1

\* A body: `full` chunks of chunk_size followed by the chunks of `tail`
Body(full, tail) == [full |-> full, tail |-> tail]
BodyLen(b) == b.full + Len(b.tail)
ChunkAt(b, i) == IF i <= b.full THEN chunk_size ELSE b.tail[i - b.full]
RECURSIVE SumSeq(_)
SumSeq(q) == IF q = <<>> THEN 0 ELSE Head(q) + SumSeq(Tail(q))
\* the length of the whole body
BodySize(b) == b.full * chunk_size + SumSeq(b.tail)

\* Content-Length present and not a number
BadLength == -3

\* A server that answers HEAD and GET with 200 and no header of interest
Plain == [wellformed |-> TRUE, scheme_http |-> TRUE, head_status |-> 200, html |-> FALSE,
          content_disposition |-> "", content_length |-> NoLength, get_length |-> NoLength,
          path |-> "/", get_status |-> 200, body |-> Body(0, <<>>)]

\* What the remote server answers for each URL a requester may submit:
\* whether validators.url accepts the text and whether it starts with http://
\* or https://, the HEAD status and headers (html: Content-Type contains
\* text/html; content_disposition: the header, "" if absent; content_length:
\* Content-Length of the HEAD response), the path of the redirect-resolved
\* URL, the GET status and Content-Length (get_length), and the body as the
\* sequence of chunk lengths iter_chunked delivers (each at most chunk_size).
Resource(url) ==
  CASE url = "http://h/a.bin" ->
         [Plain EXCEPT !.content_length = 1000, !.get_length = 1000, !.path = "/a.bin",
                       !.body = Body(0, <<35, 1, 1, 1, 500, 462>>)]
    [] url = "http://h/gz" ->
         [Plain EXCEPT !.content_length = 20, !.get_length = 20, !.path = "/gz",
                       !.body = Body(0, <<15, 20>>)]
    [] url = "http://h/stream" ->
         [Plain EXCEPT !.content_disposition = "attachment; filename=\"s.bin\"",
                       !.path = "/stream", !.body = Body(2, <<512>>)]
    [] url = "http://h/gone" ->
         [Plain EXCEPT !.content_length = 10, !.get_length = 10, !.path = "/gone", !.get_status = 404]
    [] url = "http://h/page" ->
         [Plain EXCEPT !.html = TRUE, !.path = "/page"]
    [] url = "http://2g/" ->
         [Plain EXCEPT !.content_length = MAX_TELEGRAM_SIZE, !.body = Body(2048, <<>>)]
    [] url = "http://644m/" ->
         [Plain EXCEPT !.body = Body(644, <<543>>)]
    [] url = "http://2g1/" ->
         [Plain EXCEPT !.content_length = 1024, !.body = Body(2048, <<1>>)]
    [] url = "ftp://h/f" ->
         [Plain EXCEPT !.scheme_http = FALSE, !.head_status = 0, !.path = "/f", !.get_status = 0]
    [] url = "http://h/403" ->
         [Plain EXCEPT !.head_status = 403, !.content_length = 10, !.path = "/403", !.get_status = 403]
    [] url = "http://h/dl.php" ->
         [Plain EXCEPT !.html = TRUE, !.content_length = 1000, !.path = "/dl.php", !.get_status = 404]
    [] url = "http://h/inline" ->
         [Plain EXCEPT !.html = TRUE, !.content_disposition = "inline", !.path = "/inline",
                       !.get_status = 404]
    [] url = "http://h/r" ->
         [Plain EXCEPT !.content_disposition = "attachment; filename=\"q%20r.bin\"",
                       !.path = "/r", !.get_status = 404]
    [] url = "http://h/t" ->
         [Plain EXCEPT !.content_disposition = "attachment; filename=\"..%2Fevil\"",
                       !.path = "/t", !.get_status = 404]
    [] url = "http://h/a%20b.bin" ->
         [Plain EXCEPT !.content_length = 5, !.path = "/a%20b.bin", !.get_status = 404]
    [] url = "http://h/e.bin" ->
         [Plain EXCEPT !.content_disposition = "attachment; filename=\"\"",
                       !.path = "/e.bin", !.get_status = 404]
    [] url = "http://h/raw" ->
         [Plain EXCEPT !.path = "/raw", !.get_status = 404]
    [] url = "http://h/" ->
         [Plain EXCEPT !.content_length = BadLength, !.get_status = 404]
    [] OTHER ->
         [Plain EXCEPT !.wellformed = FALSE, !.scheme_http = FALSE, !.head_status = 0, !.get_status = 0]

\* 'filename=' in content_disposition
HasFilenameParam(content_disposition) ==
  content_disposition \in {"attachment; filename=\"s.bin\"",
                           "attachment; filename=\"q%20r.bin\"",
                           "attachment; filename=\"..%2Fevil\"",
                           "attachment; filename=\"\""}

\* content_disposition.split('filename=')[1].strip('"\'')
FilenameParam(content_disposition) ==
  CASE content_disposition = "attachment; filename=\"s.bin\"" -> "s.bin"
    [] content_disposition = "attachment; filename=\"q%20r.bin\"" -> "q%20r.bin"
    [] content_disposition = "attachment; filename=\"..%2Fevil\"" -> "..%2Fevil"
    [] OTHER -> ""

\* urllib.parse.unquote
unquote(text) ==
  CASE text = "q%20r.bin" -> "q r.bin"
    [] text = "..%2Fevil" -> "../evil"
    [] text = "/a%20b.bin" -> "/a b.bin"
    [] OTHER -> text

\* Path(path).name
PathName(path) ==
  CASE path = "/a.bin" -> "a.bin"
    [] path = "/stream" -> "stream"
    [] path = "/gone" -> "gone"
    [] path = "/page" -> "page"
    [] path = "/f" -> "f"
    [] path = "/403" -> "403"
    [] path = "/dl.php" -> "dl.php"
    [] path = "/inline" -> "inline"
    [] path = "/r" -> "r"
    [] path = "/a b.bin" -> "a b.bin"
    [] path = "/e.bin" -> "e.bin"
    [] path = "/raw" -> "raw"
    [] path = "/t" -> "t"
    [] OTHER -> ""

SmallURLs == {"http://h/a.bin", "http://h/stream", "http://h/gone", "http://h/page", "ftp://h/f", "not a url"}
\* a body longer than its Content-Length (the length of a compressed body
\* that the client decodes)
BarURLs == {"http://h/gz"}
\* bodies of exactly 2 GiB and of 2 GiB + 1 KiB, sent without Content-Length
LargeURLs == {"http://2g/", "http://2g1/"}
\* bodies of 659999 KiB and of 2 GiB, sent without Content-Length
TimeoutURLs == {"http://644m/", "http://2g/"}
\* the variety of HEAD answers; the GET of each of these fails
LinkURLs == {"http://h/403", "http://h/dl.php", "http://h/inline", "http://h/r",
             "http://h/a%20b.bin", "http://h/e.bin", "http://h/raw", "http://h/", "http://h/page",
             "http://h/gone", "ftp://h/f", "not a url"}

\* ------------------------------------------------------------ exceptions
\* An exception: type(e).__name__, str(e), and the upload attempt that raised
\* it (0: not raised by an upload attempt).
Err(type, msg, attempt) == [type |-> type, msg |-> msg, attempt |-> attempt]
NoError == Err("None", "", 0)

\* f"HTTP {response.status}: Failed to download file"
HttpMessage(code) ==
  CASE code = 403 -> "HTTP 403: Failed to download file"
    [] code = 404 -> "HTTP 404: Failed to download file"
    [] OTHER -> "HTTP ???: Failed to download file"
HttpError(code) == Err("Exception", HttpMessage(code), 0)
ReadErrors == {Err("ClientPayloadError", "Response payload is not completed", 0),
               Err("ServerTimeoutError", "Timeout on reading data from socket", 0)}
ConnectError == Err("ClientConnectorError", "Cannot connect to host", 0)
EditError == Err("RetryAfter", "Flood control exceeded", 0)
SendErrors(k) == {Err("NetworkError", "httpx.ReadError", k),
                  Err("TimedOut", "Timed out", k),
                  Err("BadRequest", "File must be non-empty", k)}
DeleteError(k) == Err("BadRequest", "Message can't be deleted", k)
\* what the edit_text of a progress update or of the heartbeat raises
ProgressEditError == Err("BadRequest", "Message is not modified", 0)

\* ------------------------------------------------------------ the state
VARIABLES
  api,            \* main: the api_config.json read at start and the base_url built
  catalog,        \* the URLs requesters submit in this run
  requesters,     \* the requesters (update.effective_user.id) of this run
  update_queue,   \* requesters whose /cancel waits in Application.update_queue
  user_sessions,  \* user_sessions: requester id -> session record
  offer,          \* per conversation: the link accepted in it and the name suggested
  conv,           \* ConversationHandler state of each requester
  files,          \* DOWNLOAD_DIR: file name -> size on disk
  pc,             \* position of the running handler ("idle": none runs)
  dl,             \* start_download / download_file locals of the download leg
  up,             \* start_download locals of the upload leg
  hb,             \* the animate_upload_progress tasks: attempt -> task
  exc,            \* the exception being handled or propagated (None: none)
  wall,           \* time.time()
  loop_time,      \* asyncio.get_event_loop().time()
  status,         \* what status_msg shows ("deleted" once deleted)
  transfers,      \* how many transfers were started (bounds the run)
  obs             \* record of what the transfer did (observation only)

vars == <<api, catalog, requesters, update_queue, user_sessions, conv, offer, files, pc, dl, up, hb, exc, wall, loop_time, status, transfers, obs>>

NoDl == [conv_key |-> 0, user_id |-> 0, url |-> "", filename |-> "", filepath |-> None,
         total_size |-> 0, downloaded |-> 0, pos |-> 0,
         last_progress |-> 0, last_update_time |-> 0]
NoUp == [file_size |-> 0, retry_count |-> 0, upload_success |-> FALSE,
         animation_active |-> FALSE, upload_start_time |-> 0,
         upload_error |-> NoError, wait_time |-> 0,
         read_timeout |-> 0, write_timeout |-> 0, connect_timeout |-> 0]
\* no link submission / no rename text was handled last
NoLink == [url |-> "", probe |-> "", fnOK |-> TRUE, szOK |-> TRUE, failedEdits |-> 0,
           verdict |-> "none", shown |-> "none"]
NoRename == [text |-> "", replyOK |-> FALSE, asked |-> FALSE]

\* user, link, rename: the requester and the input of the handler that ran
\* last (link: a link submission, rename: a rename text), and what it showed
NoObs == [user |-> 0, link |-> NoLink, rename |-> NoRename,
          sends |-> <<>>, waited |-> <<>>,
          chunks |-> 0, cb_calls |-> 0, cb_last |-> <<0, 0>>,
          emit_bucket |-> -1, emit_count |-> 0, last_emit_wall |-> WallStart,
          too_large |-> FALSE, reported |-> NoError, attempts |-> 0,
          stale_render |-> FALSE, floor_pct |-> -1, floor_dup |-> FALSE,
          emit_bytes |-> 0, attempt_start |-> 0, rendered |-> <<>>,
          timeouts |-> {}, cleanup |-> <<>>, gets |-> 0,
          handler |-> "", expired |-> "none",
          bar |-> [progress |-> -1, filled |-> 0, empty |-> 0]]

\* no link is on offer in the conversation
NoOffer == [url |-> "", filename |-> ""]
\* the offers after a step: one lasts while its conversation waits for the
\* name choice
KeepOffers(cv) == [k \in DOMAIN offer |-> IF cv[k] = WAITING_FOR_FILENAME THEN offer[k] ELSE NoOffer]

\* api_config.json as main finds it; a key the record lacks has has_* FALSE
NoConfig == [exists |-> FALSE, wellformed |-> TRUE,
             has_use_local_api |-> FALSE, use_local_api |-> FALSE,
             has_local_api_url |-> FALSE, local_api_url |-> "",
             has_official_api_url |-> FALSE, official_api_url |-> ""]

\* f"{url}/bot"
BotURL(url) ==
  CASE url = "http://localhost:8081" -> "http://localhost:8081/bot"
    [] url = "http://10.0.0.5:8081" -> "http://10.0.0.5:8081/bot"
    [] url = "https://api.telegram.org" -> "https://api.telegram.org/bot"
    [] url = "https://tg.example" -> "https://tg.example/bot"
    [] OTHER -> "/bot"

\* the except FileNotFoundError branch of main: the bot runs without a
\* configuration file
Running == [token_ok |-> TRUE, config |-> NoConfig,
            base_url |-> "https://api.telegram.org/bot"]

InitWith(urls, users) ==
  /\ api = Running
  /\ catalog = urls
  /\ requesters = users
  /\ update_queue = {}
  /\ user_sessions = << >>
  /\ conv = [u \in users |-> END]
  /\ offer = [u \in users |-> NoOffer]
  /\ files = << >>
  /\ pc = "idle"
  /\ dl = NoDl /\ up = NoUp /\ hb = << >> /\ obs = NoObs
  /\ exc = NoError
  /\ wall = WallStart
  /\ loop_time = 0
  /\ status = None
  /\ transfers = 0

Init == InitWith(SmallURLs, {1})

InitLarge == InitWith(LargeURLs, {1})

\* The input of the conversation handlers is recorded in the runs that follow
\* link submissions (those whose catalog is part of LinkURLs).
Observe(o) == IF catalog \subseteq LinkURLs THEN o ELSE NoObs

\* d with key k bound to v (dict item assignment)
Put(d, k, v) == [x \in (DOMAIN d) \cup {k} |-> IF x = k THEN v ELSE d[x]]
\* d without key k (del d[k] / unlink)
Del(d, k) == [x \in (DOMAIN d) \ {k} |-> d[x]]

\* ------------------------------------------------------ link submission
FALLBACK_NAME == "downloaded_file"
ProbeOutcomes == {"ok", "timeout", "error"}

\* a validation that looks at the content type first
validate_link_html_first(url, probe) ==
  LET r == Resource(url) IN
  IF ~r.wellformed THEN "invalid_format"
  ELSE IF ~r.scheme_http THEN "bad_scheme"
  ELSE IF probe = "timeout" THEN "timeout"
  ELSE IF probe = "error" THEN "probe_error"
  ELSE IF r.head_status >= 400 THEN "http_error"
  ELSE IF r.html THEN "web_page"
  ELSE "ok"

\* a validation without the `except asyncio.TimeoutError` clause
validate_link_no_timeout_clause(url, probe) ==
  LET r == Resource(url) IN
  IF ~r.wellformed THEN "invalid_format"
  ELSE IF ~r.scheme_http THEN "bad_scheme"
  ELSE IF probe \in {"timeout", "error"} THEN "probe_error"
  ELSE IF r.head_status >= 400 THEN "http_error"
  ELSE IF r.content_disposition # "" \/ r.content_length # NoLength THEN "ok"
  ELSE IF ~r.html THEN "ok"
  ELSE "web_page"

\* validate_link: "ok" or the rejection reason
validate_link(url, probe) ==
  LET r == Resource(url) IN
  IF ~r.wellformed THEN "invalid_format"
  ELSE IF ~r.scheme_http THEN "bad_scheme"
  ELSE IF probe = "timeout" THEN "timeout"
  ELSE IF probe = "error" THEN "probe_error"
  ELSE IF r.head_status >= 400 THEN "http_error"
  ELSE IF r.content_disposition # "" \/ r.content_length # NoLength THEN "ok"
  ELSE IF ~r.html THEN "ok"
  ELSE "web_page"

\* an exception left the probe (caught by `except Exception` of handle_link)
Raised == "<raised>"

\* a probe without its try/except: an error of the HEAD request propagates
get_filename_unguarded(url, headOK) ==
  LET r == Resource(url)
      filename == PathName(unquote(r.path))
  IN IF ~headOK THEN Raised
     ELSE IF HasFilenameParam(r.content_disposition)
     THEN unquote(FilenameParam(r.content_disposition))
     ELSE IF filename # "" THEN filename
     ELSE None

\* FileDownloader.get_filename_from_url; headOK: the HEAD request succeeded
get_filename_from_url(url, headOK) ==
  LET r == Resource(url)
      filename == PathName(unquote(r.path))
  IN IF ~headOK THEN None
     ELSE IF HasFilenameParam(r.content_disposition)
     THEN unquote(FilenameParam(r.content_disposition))
     ELSE IF filename # "" THEN filename
     ELSE None

\* FileDownloader.get_file_size: None if the HEAD request or int() raises
get_file_size(url, headOK) ==
  LET r == Resource(url) IN
  IF ~headOK \/ r.content_length = BadLength THEN NoneInt
  ELSE IF r.content_length = NoLength THEN 0 ELSE r.content_length

\* download_command: /download is an entry point of the conversation
download_command(u) ==
  /\ pc = "idle"
  /\ conv[u] = END
  /\ conv' = [conv EXCEPT ![u] = WAITING_FOR_LINK]
  /\ offer' = KeepOffers(conv')
  /\ obs' = Observe([NoObs EXCEPT !.user = u, !.handler = "download_command"])
  /\ UNCHANGED <<transfers, api, catalog, requesters, update_queue, user_sessions, files, pc, dl, up, hb, exc, wall, loop_time, status>>

\* what status_msg of handle_link shows when the handler ends
LinkShown(verdict, failedEdits) ==
  IF verdict # "ok"
  THEN IF failedEdits = 0 THEN verdict ELSE "validating"
  ELSE IF failedEdits = 0 THEN "validated"
       ELSE IF failedEdits = 1 THEN "error" ELSE "validating"

\* a store that keeps a session the requester already has
StoreSessionIfAbsent(sessions, user_id, session) ==
  IF user_id \in DOMAIN sessions THEN sessions ELSE Put(sessions, user_id, session)

\* user_sessions[user_id] = {...}
StoreSession(sessions, user_id, session) == Put(sessions, user_id, session)

\* a rejected link that opens the name choice
AfterRejectedChoice == WAITING_FOR_FILENAME

\* `return WAITING_FOR_LINK` after validate_link has rejected the link
AfterRejected == WAITING_FOR_LINK

\* handle_link; failedEdits: how many of its edit_text calls raise. A rejected
\* link has one edit_text (an exception leaves the handler); an accepted link
\* has the edit_text of the keyboard and, if that raises, the one of the
\* except clause. The except clause also takes an exception of the probe,
\* before the session is stored.
handle_link(u) ==
  /\ pc = "idle"
  /\ conv[u] \in {END, WAITING_FOR_LINK}
  /\ \E url \in catalog, probe \in ProbeOutcomes, fnOK \in BOOLEAN, szOK \in BOOLEAN,
        failedEdits \in 0..2 :
       LET verdict == validate_link(url, probe)
           probed == get_filename_from_url(url, fnOK)
           filename == IF probed \in {None, ""} THEN FALLBACK_NAME ELSE probed
           file_size == get_file_size(url, szOK)
       IN IF verdict # "ok"
          THEN /\ failedEdits < 2
               /\ fnOK /\ szOK
               /\ conv' = [conv EXCEPT ![u] = IF failedEdits = 0 THEN AfterRejected ELSE @]
               /\ offer' = KeepOffers(conv')
               /\ UNCHANGED user_sessions
               /\ obs' = Observe([NoObs EXCEPT !.user = u, !.handler = "handle_link",
                             !.link = [url |-> url, probe |-> probe, fnOK |-> TRUE, szOK |-> TRUE,
                                       failedEdits |-> failedEdits,
                                       verdict |-> verdict, shown |-> LinkShown(verdict, failedEdits)]])
          ELSE IF probed = Raised
          THEN /\ failedEdits < 2
               /\ conv' = [conv EXCEPT ![u] = IF failedEdits = 0 THEN WAITING_FOR_LINK ELSE @]
               /\ offer' = KeepOffers(conv')
               /\ UNCHANGED user_sessions
               /\ obs' = Observe([NoObs EXCEPT !.user = u, !.handler = "handle_link",
                             !.link = [url |-> url, probe |-> probe, fnOK |-> fnOK, szOK |-> szOK,
                                       failedEdits |-> failedEdits, verdict |-> verdict,
                                       shown |-> IF failedEdits = 0 THEN "error" ELSE "validating"]])
          ELSE /\ user_sessions' = StoreSession(user_sessions, UserOf(u),
                    [url |-> url, original_filename |-> filename, file_size |-> file_size])
               /\ conv' = [conv EXCEPT ![u] =
                             IF failedEdits = 0 THEN WAITING_FOR_FILENAME
                             ELSE IF failedEdits = 1 THEN WAITING_FOR_LINK ELSE @]
               /\ offer' = [KeepOffers(conv') EXCEPT ![u] =
                              IF failedEdits = 0 THEN [url |-> url, filename |-> filename]
                              ELSE NoOffer]
               /\ obs' = Observe([NoObs EXCEPT !.user = u, !.handler = "handle_link",
                             !.link = [url |-> url, probe |-> probe, fnOK |-> fnOK, szOK |-> szOK,
                                       failedEdits |-> failedEdits,
                                       verdict |-> verdict, shown |-> LinkShown(verdict, failedEdits)]])
  /\ UNCHANGED <<transfers, api, catalog, requesters, update_queue, files, pc, dl, up, hb, exc, wall, loop_time, status>>

\* cancel: the fallback of an active conversation
cancel(u) ==
  /\ pc = "idle"
  /\ conv[u] # END
  /\ user_sessions' = Del(user_sessions, UserOf(u))
  /\ \E replyOK \in BOOLEAN :
       /\ conv' = [conv EXCEPT ![u] = (IF replyOK THEN END ELSE @)]
       /\ offer' = KeepOffers(conv')
  /\ obs' = Observe([NoObs EXCEPT !.user = u, !.handler = "cancel"])
  /\ UNCHANGED <<transfers, api, catalog, requesters, update_queue, files, pc, dl, up, hb, exc, wall, loop_time, status>>

\* ---------------------------------------------------------- start_download
\* start_download up to its first await: the locals of a new transfer.
\* The wall clock is written relative to the start of the transfer.
start_download(u, filename) ==
  IF UserOf(u) \notin DOMAIN user_sessions
  THEN UNCHANGED <<transfers, pc, dl, up, hb, exc, wall, loop_time, status>>
  ELSE /\ transfers < MaxTransfers
       /\ transfers' = transfers + 1
       /\ dl' = [NoDl EXCEPT !.conv_key = u, !.user_id = UserOf(u),
                           !.url = user_sessions[UserOf(u)].url, !.filename = filename]
       /\ up' = NoUp
       /\ hb' = << >>
       /\ exc' = NoError
       /\ wall' = WallStart
       /\ loop_time' = 0
       /\ status' = "starting"
       /\ pc' = "get"

\* a handler that keeps the conversation open when the session is gone
AfterExpiredStay == WAITING_FOR_FILENAME

\* `if not session: ... return ConversationHandler.END` of button_callback
\* and handle_rename
AfterExpired == END

\* button_callback
button_callback(u) ==
  /\ pc = "idle"
  /\ conv[u] = WAITING_FOR_FILENAME
  /\ \E data \in {"default", "rename"}, editOK \in BOOLEAN :
       /\ IF ~editOK
          THEN UNCHANGED <<conv, offer, pc, dl, up, hb, exc, wall, loop_time, status, transfers>>
          ELSE IF UserOf(u) \notin DOMAIN user_sessions
          THEN /\ conv' = [conv EXCEPT ![u] = AfterExpired]
               /\ offer' = KeepOffers(conv')
               /\ UNCHANGED <<pc, dl, up, hb, exc, wall, loop_time, status, transfers>>
          ELSE IF data = "default"
          THEN /\ start_download(u, user_sessions[UserOf(u)].original_filename)
               /\ UNCHANGED <<conv, offer>>
          ELSE UNCHANGED <<conv, offer, pc, dl, up, hb, exc, wall, loop_time, status, transfers>>
       /\ obs' = Observe([NoObs EXCEPT !.user = u, !.handler = "button_callback",
                     !.expired = IF UserOf(u) \in DOMAIN user_sessions THEN "none"
                                 ELSE IF editOK THEN "shown" ELSE "raised"])
  /\ UNCHANGED <<api, catalog, requesters, update_queue, user_sessions, files>>

RenameInputs == {"movie_final.mkv", " movie_final.mkv ", "", "  ", "a/b", "../evil", "a\\b"}
\* str.strip() of the rename inputs
Strip(text) ==
  CASE text = " movie_final.mkv " -> "movie_final.mkv"
    [] text = "  " -> ""
    [] OTHER -> text
\* a validation that forgets the backslash
HasSeparatorSlashOnly(name) == name \in {"a/b", "../evil"}
\* '/' in name or '\\' in name, for the rename inputs
HasSeparator(name) == name \in {"a/b", "../evil", "a\\b"}

\* handle_rename; replyOK: its reply_text returns (if it raises, the
\* exception leaves the handler)
handle_rename(u) ==
  /\ pc = "idle"
  /\ conv[u] = WAITING_FOR_FILENAME
  /\ \E text \in RenameInputs, replyOK \in BOOLEAN :
       LET new_filename == Strip(text) IN
       /\ IF ~replyOK
          THEN UNCHANGED <<conv, offer, pc, dl, up, hb, exc, wall, loop_time, status, transfers>>
          ELSE IF UserOf(u) \notin DOMAIN user_sessions
          THEN /\ conv' = [conv EXCEPT ![u] = AfterExpired]
               /\ offer' = KeepOffers(conv')
               /\ UNCHANGED <<pc, dl, up, hb, exc, wall, loop_time, status, transfers>>
          ELSE IF new_filename = "" \/ HasSeparator(new_filename)
          THEN UNCHANGED <<conv, offer, pc, dl, up, hb, exc, wall, loop_time, status, transfers>>
          ELSE /\ start_download(u, new_filename)
               /\ UNCHANGED <<conv, offer>>
       /\ obs' = Observe([NoObs EXCEPT !.user = u, !.handler = "handle_rename",
                     !.expired = IF UserOf(u) \in DOMAIN user_sessions THEN "none"
                                 ELSE IF replyOK THEN "shown" ELSE "raised",
                     !.rename = [text |-> text, replyOK |-> replyOK, asked |-> TRUE]])
  /\ UNCHANGED <<api, catalog, requesters, update_queue, user_sessions, files>>

\* ------------------------------------------------------------ download leg
\* download_file from session.get to the opened file: the GET fails to
\* connect, or answers a status other than 200, or the file is created.
\* a status check that lets client errors pass
StatusRejectedServerOnly(code) == code >= 500

\* if response.status != 200
StatusRejected(code) == code # 200

Connect ==
  /\ pc = "get"
  /\ obs' = [obs EXCEPT !.gets = @ + 1]
  /\ \E connected \in BOOLEAN :
       LET r == Resource(dl.url) IN
       IF ~connected
       THEN /\ exc' = ConnectError /\ pc' = "handler" /\ UNCHANGED <<dl, files>>
       ELSE IF StatusRejected(r.get_status)
       THEN /\ exc' = HttpError(r.get_status) /\ pc' = "handler" /\ UNCHANGED <<dl, files>>
       ELSE /\ dl' = [dl EXCEPT !.total_size = IF r.get_length = NoLength THEN 0 ELSE r.get_length,
                                !.downloaded = 0]
            /\ files' = Put(files, dl.filename, 0)
            /\ pc' = "streaming"
            /\ UNCHANGED exc
  /\ UNCHANGED <<transfers, api, catalog, requesters, update_queue, user_sessions, conv, offer, up, hb, wall, loop_time, status>>

\* seconds that pass while the next chunk is awaited
WallTicks == {TIME_FLOOR, TIME_FLOOR + 1}

WallTick ==
  /\ pc = "streaming"
  /\ \E d \in WallTicks :
       /\ wall + d <= WallStart + MaxWallSpan
       /\ wall' = wall + d
  /\ UNCHANGED <<transfers, api, catalog, requesters, update_queue, user_sessions, conv, offer, files, pc, dl, up, hb, exc, loop_time, status, obs>>

\* int(progress) for progress = (downloaded / total_size) * 100
IntProgress(downloaded, total) == (downloaded * 100) \div total

\* progress_step = (current_progress // 2) * 2
ProgressStep(current_progress) == (current_progress \div PROGRESS_STEP) * PROGRESS_STEP

\* the watermark the liveness floor writes for a known total
FloorWatermark(current_progress) == current_progress

\* progress_callback up to `if should_update`: the decision and the new
\* watermarks last_progress[0] and last_update_time[0]
progress_callback(downloaded, total, current_progress, current_time, last_progress, last_update_time) ==
  LET progress_step == ProgressStep(current_progress)
      byStep == IF total > 0
                THEN progress_step # last_progress /\ progress_step >= 2
                ELSE downloaded > last_progress + UNKNOWN_STEP
      lp1 == IF ~byStep THEN last_progress
             ELSE IF total > 0 THEN progress_step ELSE downloaded
      byTime == current_time - last_update_time >= TIME_FLOOR
      lp2 == IF ~byTime THEN lp1
             ELSE IF total > 0 THEN FloorWatermark(current_progress) ELSE downloaded
      should_update == byStep \/ byTime
  IN [should_update |-> should_update,
      byStep |-> byStep,
      byTime |-> byTime,
      last_progress |-> lp2,
      last_update_time |-> IF should_update THEN current_time ELSE last_update_time]

\* "x" * n: the length of the string (empty for a negative n)
Repeat(n) == IF n > 0 THEN n ELSE 0
\* the default of the parameter length of create_progress_bar
BAR_LENGTH == 15
\* create_progress_bar: the numbers of filled and of empty cells of the bar
create_progress_bar(progress, length) ==
  LET filled == (length * progress) \div 100
  IN [progress |-> progress, filled |-> Repeat(filled), empty |-> Repeat(length - filled)]

\* download_file calls the callback after a chunk only under this condition
CallbackDue(total_size) == total_size > 0

\* an edit without its try/except: the exception leaves the callback
EditPropagates(e) == e

\* `try: await status_msg.edit_text(...) except Exception: logger.debug(...)`:
\* the exception that leaves the statement when edit_text raises e
EditLeaves(e) == NoError

\* One iteration of the chunk loop of download_file: write the chunk, count
\* it, call the progress callback (whose edit_text may raise, swallowed).
ReadChunk ==
  /\ pc = "streaming"
  /\ dl.pos < BodyLen(Resource(dl.url).body)
  /\ \E editOK \in BOOLEAN :
       LET chunk == ChunkAt(Resource(dl.url).body, dl.pos + 1)
           downloaded == dl.downloaded + chunk
           called == CallbackDue(dl.total_size)
           current_progress == IF dl.total_size > 0 THEN IntProgress(downloaded, dl.total_size) ELSE 0
           cb == progress_callback(downloaded, dl.total_size, current_progress, wall,
                                   dl.last_progress, dl.last_update_time)
           emits == called /\ cb.should_update
           bucket == ProgressStep(current_progress)
       IN /\ files' = [files EXCEPT ![dl.filename] = @ + chunk]
          /\ dl' = [dl EXCEPT !.downloaded = downloaded, !.pos = @ + 1,
                              !.last_progress = IF called THEN cb.last_progress ELSE @,
                              !.last_update_time = IF called THEN cb.last_update_time ELSE @]
          /\ status' = IF emits /\ editOK THEN "downloading" ELSE status
          /\ IF emits /\ ~editOK /\ EditLeaves(ProgressEditError) # NoError
             THEN exc' = EditLeaves(ProgressEditError) /\ pc' = "handler"
             ELSE UNCHANGED <<exc, pc>>
          /\ obs' = [obs EXCEPT !.chunks = @ + 1,
                                !.cb_calls = IF called THEN @ + 1 ELSE @,
                                !.cb_last = IF called THEN <<downloaded, dl.total_size>> ELSE @,
                                !.emit_bucket = IF emits THEN bucket ELSE @,
                                !.emit_count = IF ~emits THEN @
                                               ELSE IF bucket = obs.emit_bucket THEN @ + 1 ELSE 1,
                                !.last_emit_wall = IF emits THEN wall ELSE @,
                                !.emit_bytes = IF emits THEN downloaded ELSE @,
                                !.bar = IF emits THEN create_progress_bar(current_progress, BAR_LENGTH)
                                        ELSE @,
                                !.floor_pct = IF ~called THEN @
                                              ELSE IF emits /\ cb.byTime /\ ~cb.byStep
                                                   THEN current_progress ELSE -1,
                                !.floor_dup = @ \/ (/\ emits
                                                     /\ obs.floor_pct = current_progress
                                                     /\ ~cb.byTime)]
  /\ UNCHANGED <<transfers, api, catalog, requesters, update_queue, user_sessions, conv, offer, up, hb, wall, loop_time>>

\* download_file is left: its locals and the watermarks of the progress
\* callback are dead from here on, and the wall clock is no longer read.
LeftDownload(d) == [d EXCEPT !.total_size = 0, !.downloaded = 0, !.pos = 0,
                             !.last_progress = 0, !.last_update_time = 0]

\* A chunk read raises (connection lost, stalled socket): the exception leaves
\* download_file, which closes the file and does not remove it; filepath of
\* start_download stays None.
ReadFail ==
  /\ pc = "streaming"
  /\ dl.pos < MaxFailChunk
  /\ dl.pos < BodyLen(Resource(dl.url).body)
  /\ \E e \in ReadErrors : exc' = e
  /\ pc' = "handler"
  /\ dl' = LeftDownload(dl)
  /\ wall' = WallStart
  /\ obs' = [NoObs EXCEPT !.gets = obs.gets]
  /\ UNCHANGED <<transfers, api, catalog, requesters, update_queue, user_sessions, conv, offer, files, up, hb, loop_time, status>>

\* a chunk loop that is left after its first chunk
BodyEndedEarly(pos, body) == pos >= 1 \/ pos = BodyLen(body)

\* `async for chunk in response.content.iter_chunked(chunk_size)` has no
\* further chunk
BodyEnded(pos, body) == pos = BodyLen(body)

\* The body ends: download_file returns filepath, assigned in start_download.
EndOfBody ==
  /\ pc = "streaming"
  /\ BodyEnded(dl.pos, Resource(dl.url).body)
  /\ dl' = [LeftDownload(dl) EXCEPT !.filepath = dl.filename]
  /\ pc' = "size_check"
  /\ wall' = WallStart
  /\ obs' = [NoObs EXCEPT !.gets = obs.gets]
  /\ UNCHANGED <<transfers, api, catalog, requesters, update_queue, user_sessions, conv, offer, files, up, hb, exc, loop_time, status>>

\* a size check that also rejects a file of exactly the limit
SizeExceededInclusive(file_size) == file_size >= MAX_TELEGRAM_SIZE

\* file_size > MAX_TELEGRAM_SIZE
SizeExceeded(file_size) == file_size > MAX_TELEGRAM_SIZE

\* stat, the size check, and either the too-large report and return, or the
\* "Uploading" status and the locals of the upload loop. An edit_text that
\* raises is caught by the handler of start_download.
SizeCheck ==
  /\ pc = "size_check"
  /\ \E editOK \in BOOLEAN :
       LET file_size == files[dl.filepath] IN
       /\ up' = [NoUp EXCEPT !.file_size = file_size, !.animation_active = TRUE,
                             !.upload_start_time = loop_time]
       /\ obs' = [obs EXCEPT !.too_large = SizeExceeded(file_size)]
       /\ IF ~editOK
          THEN /\ exc' = EditError /\ pc' = "handler" /\ UNCHANGED status
          ELSE /\ UNCHANGED exc
               /\ IF SizeExceeded(file_size)
                  THEN status' = "too_large" /\ pc' = "finally"
                  ELSE status' = "uploading" /\ pc' = "loop"
  /\ UNCHANGED <<transfers, api, catalog, requesters, update_queue, user_sessions, conv, offer, files, dl, hb, wall, loop_time>>

\* -------------------------------------------------------------- upload leg
\* a loop test that forgets upload_success
LoopContinuesBlind(retry_count, upload_success) == retry_count < max_retries

\* while retry_count < max_retries and not upload_success
LoopContinues(retry_count, upload_success) == retry_count < max_retries /\ ~upload_success

\* a task that has run to its end (its locals are gone)
FinishedTask == [state |-> "finished", last_update |-> 0, frame_idx |-> 0, wake |-> 0]

\* the tasks that have not run to their end
Alive == {k \in DOMAIN hb : hb[k].state # "finished"}

Min(a, b) == IF a <= b THEN a ELSE b

\* Timeouts are in hundredths of a second (sizes are in KiB).
\* estimated_time = file_size / (100 * 1024) seconds
estimated_time(file_size) == (file_size * 100) \div 100
\* timeout_buffer = 600 seconds
timeout_buffer == 600 * 100
\* the cap of 7200 seconds
TIMEOUT_CAP == 7200 * 100
\* connect_timeout=60
CONNECT_TIMEOUT == 60 * 100

\* a timeout without the cap
read_timeout_uncapped(file_size) == estimated_time(file_size) + timeout_buffer

\* read_timeout = min(estimated_time + timeout_buffer, 7200)
read_timeout(file_size) == Min(estimated_time(file_size) + timeout_buffer, TIMEOUT_CAP)
\* write_timeout = min(estimated_time + timeout_buffer, 7200)
write_timeout(file_size) == Min(estimated_time(file_size) + timeout_buffer, TIMEOUT_CAP)

\* The loop test, and for a new attempt: the flag is set, the heartbeat task
\* of this attempt is created, the file is opened and send_document is
\* awaited. When the loop ends the try block is left without an exception.
LoopTest ==
  /\ pc = "loop"
  /\ IF LoopContinues(up.retry_count, up.upload_success)
     THEN /\ up' = [up EXCEPT !.animation_active = TRUE,
                              !.read_timeout = read_timeout(up.file_size),
                              !.write_timeout = write_timeout(up.file_size),
                              !.connect_timeout = CONNECT_TIMEOUT]
          /\ hb' = Put(hb, obs.attempts + 1,
                       [state |-> "ready", last_update |-> 0, frame_idx |-> 0, wake |-> 0])
          /\ obs' = [obs EXCEPT !.attempts = @ + 1, !.attempt_start = loop_time,
                                !.rendered = <<>>,
                                !.timeouts = @ \cup {<<read_timeout(up.file_size),
                                                        write_timeout(up.file_size),
                                                        CONNECT_TIMEOUT>>}]
          /\ pc' = "sending"
     ELSE /\ pc' = "finally"
          /\ UNCHANGED <<up, hb, obs>>
  /\ UNCHANGED <<transfers, api, catalog, requesters, update_queue, user_sessions, conv, offer, files, dl, exc, wall, loop_time, status>>

\* where the main coroutine is suspended in an await, so that tasks may run
Suspended == pc \in {"sending", "join_ok", "join_err", "deleting", "backoff", "handler"}

\* One pass of `while animation_active[0]` of animate_upload_progress up to
\* its next await: the task ends, or starts an edit_text, or starts to sleep.
RenderDueEverySecond(elapsed, last_update) == elapsed - last_update >= HEARTBEAT_SLEEP

\* if elapsed - last_update >= 2
RenderDue(elapsed, last_update) == elapsed - last_update >= HEARTBEAT_EVERY

HbStep(k) ==
  /\ Suspended
  /\ k \in DOMAIN hb
  /\ hb[k].state = "ready"
  /\ LET elapsed == loop_time - up.upload_start_time
         renders == RenderDue(elapsed, hb[k].last_update)
     IN IF ~up.animation_active
        THEN /\ hb' = [hb EXCEPT ![k] = FinishedTask]
             /\ UNCHANGED obs
        ELSE IF renders
        THEN /\ hb' = [hb EXCEPT ![k].state = "editing", ![k].last_update = elapsed,
                                 ![k].frame_idx = (@ + 1) % 10]
             /\ obs' = [obs EXCEPT !.stale_render = @ \/ k # obs.attempts \/ pc \notin {"sending", "join_ok", "join_err"},
                                   !.rendered = Append(@, elapsed)]
        ELSE /\ hb' = [hb EXCEPT ![k].state = "sleeping", ![k].wake = loop_time + HEARTBEAT_SLEEP]
             /\ UNCHANGED obs
  /\ UNCHANGED <<transfers, api, catalog, requesters, update_queue, user_sessions, conv, offer, files, pc, dl, up, exc, wall, loop_time, status>>

\* The edit_text of the heartbeat returns or raises (swallowed); then it
\* sleeps. A task that an exception leaves has crashed.
HbEditDone(k) ==
  /\ Suspended
  /\ k \in DOMAIN hb
  /\ hb[k].state = "editing"
  /\ \E editOK \in BOOLEAN :
       /\ status' = IF editOK /\ status # "deleted" THEN "spinner" ELSE status
       /\ hb' = IF ~editOK /\ EditLeaves(ProgressEditError) # NoError
                THEN [hb EXCEPT ![k].state = "crashed"]
                ELSE [hb EXCEPT ![k].state = "sleeping", ![k].wake = loop_time + HEARTBEAT_SLEEP]
  /\ UNCHANGED <<transfers, api, catalog, requesters, update_queue, user_sessions, conv, offer, files, pc, dl, up, exc, wall, loop_time, obs>>

\* asyncio.sleep(1) of the heartbeat is over
HbWake(k) ==
  /\ Suspended
  /\ k \in DOMAIN hb
  /\ hb[k].state = "sleeping"
  /\ loop_time >= hb[k].wake
  /\ hb' = [hb EXCEPT ![k].state = "ready"]
  /\ UNCHANGED <<transfers, api, catalog, requesters, update_queue, user_sessions, conv, offer, files, pc, dl, up, exc, wall, loop_time, status, obs>>

\* A second passes on the event-loop clock while send_document is in flight
\* or while a task that the main coroutine awaits sleeps.
TickUpTo(maxElapsed) ==
  /\ \/ pc = "sending" /\ loop_time - up.upload_start_time < maxElapsed
     \/ pc \in {"join_ok", "join_err"} /\ \E k \in Alive : hb[k].state = "sleeping" /\ loop_time < hb[k].wake
  /\ loop_time' = loop_time + 1
  /\ UNCHANGED <<transfers, api, catalog, requesters, update_queue, user_sessions, conv, offer, files, pc, dl, up, hb, exc, wall, status, obs>>

LoopTick == TickUpTo(MaxElapsed)

\* the same second, for a send_document call that lasts longer
LongTick == TickUpTo(MaxLongElapsed)

\* a binding that keeps the first error of the loop
BindErrorFirst(bound, raised) == IF bound = NoError THEN raised ELSE bound

\* `except Exception as upload_error`: the error the name is bound to
BindError(bound, raised) == raised

\* an except clause that takes network errors only
CaughtNetworkOnly(e) == e.type \in {"NetworkError"}

\* `except Exception as upload_error` of the attempt: the errors it takes
Caught(e) == TRUE

\* send_document returns or raises; in both cases the flag is cleared next.
\* An error the except clause of the attempt does not take leaves the loop
\* for the handler of start_download.
SendDone ==
  /\ pc = "sending"
  /\ \E r \in {NoError} \cup SendErrors(obs.attempts) :
       IF r = NoError
       THEN /\ obs' = [obs EXCEPT !.sends = Append(@, "ok")]
            /\ up' = [up EXCEPT !.animation_active = FALSE]
            /\ pc' = "join_ok"
            /\ UNCHANGED exc
       ELSE IF Caught(r)
       THEN /\ obs' = [obs EXCEPT !.sends = Append(@, "fail")]
            /\ up' = [up EXCEPT !.animation_active = FALSE,
                                !.upload_error = BindError(@, r)]
            /\ pc' = "join_err"
            /\ UNCHANGED exc
       ELSE /\ obs' = [obs EXCEPT !.sends = Append(@, "fail")]
            /\ exc' = r
            /\ pc' = "handler"
            /\ UNCHANGED up
  /\ UNCHANGED <<transfers, api, catalog, requesters, update_queue, user_sessions, conv, offer, files, dl, hb, wall, loop_time, status>>

\* an attempt that goes on without awaiting its task
TaskNotAwaited(task) == TRUE

\* `await upload_animation_task` returns once the task has run to its end
TaskJoined(task) == task.state = "finished"

\* success path: the task is joined, then upload_success = True
JoinOk ==
  /\ pc = "join_ok"
  /\ TaskJoined(hb[obs.attempts])
  /\ up' = [up EXCEPT !.upload_success = TRUE]
  /\ pc' = "deleting"
  /\ UNCHANGED <<transfers, api, catalog, requesters, update_queue, user_sessions, conv, offer, files, dl, hb, exc, wall, loop_time, status, obs>>

\* status_msg.delete() returns, or raises into the except clause of the attempt
DeleteMsg ==
  /\ pc = "deleting"
  /\ \E deleteOK \in BOOLEAN :
       IF deleteOK
       THEN /\ status' = "deleted"
            /\ pc' = "loop"
            /\ UNCHANGED <<up, obs>>
       ELSE /\ up' = [up EXCEPT !.animation_active = FALSE,
                                !.upload_error = BindError(@, DeleteError(obs.attempts))]
            /\ pc' = "join_err"
            /\ UNCHANGED <<status, obs>>
  /\ UNCHANGED <<transfers, api, catalog, requesters, update_queue, user_sessions, conv, offer, files, dl, hb, exc, wall, loop_time>>

\* a backoff that does not escalate
WaitTimeFlat(retry_count) == BACKOFF_UNIT

\* wait_time = retry_count * 10
WaitTime(retry_count) == retry_count * BACKOFF_UNIT

\* failure path: the task is joined, retry_count += 1, then either the
\* "retrying" notice (an edit_text that may raise, swallowed) and the backoff
\* sleep, or the error is raised again.
JoinErr ==
  /\ pc = "join_err"
  /\ TaskJoined(hb[obs.attempts])
  /\ \E editOK \in BOOLEAN :
       LET retry_count == up.retry_count + 1 IN
       IF retry_count < max_retries
       THEN /\ up' = [up EXCEPT !.retry_count = retry_count, !.wait_time = WaitTime(retry_count)]
            /\ status' = IF editOK THEN "retrying" ELSE status
            /\ pc' = "backoff"
            /\ UNCHANGED exc
       ELSE /\ up' = [up EXCEPT !.retry_count = retry_count]
            /\ exc' = up.upload_error
            /\ pc' = "handler"
            /\ UNCHANGED status
  /\ UNCHANGED <<transfers, api, catalog, requesters, update_queue, user_sessions, conv, offer, files, dl, hb, wall, loop_time, obs>>

\* asyncio.sleep(wait_time) is over; upload_start_time is reset. The
\* event-loop clock is written relative to the start of the attempt.
\* upload_start_time = asyncio.get_event_loop().time()
TimerReset(start, now) == now

Backoff ==
  /\ pc = "backoff"
  /\ obs' = [obs EXCEPT !.waited = Append(@, up.wait_time), !.rendered = <<>>]
  /\ loop_time' = 0
  /\ LET now == loop_time + up.wait_time
     IN up' = [up EXCEPT !.upload_start_time = TimerReset(@, now) - now]
  /\ pc' = "loop"
  /\ UNCHANGED <<transfers, api, catalog, requesters, update_queue, user_sessions, conv, offer, files, dl, hb, exc, wall, status>>

\* ------------------------------------------------- handler and cleanup
\* "NetworkError" in error_type or "ReadError" in error_type or "WriteError" in error_type
NetworkNamed(type) == type \in {"NetworkError"}
\* "Timed out" in str(e) or "timeout" in str(e).lower()
TimeoutWorded(msg) == msg \in {"Timed out", "Timeout on reading data from socket"}

\* error_msg = "Upload Failed" + ...: the heading of every message the
\* handler builds
ReportHeading(e) == "Upload Failed"

\* the category of the message the handler builds
Classify(e) ==
  IF NetworkNamed(e.type) THEN "network"
  ELSE IF TimeoutWorded(e.msg) THEN "timeout"
  ELSE "other"

\* a cleanup placed at the end of the except block, skipped when it raises
AfterHandlerNoFinally(reportOK) == IF reportOK THEN "finally" ELSE "raised"

\* where control goes from the except block: Python runs the finally block
\* whether the block ends or raises
AfterHandler(reportOK) == "finally"

\* `except Exception as e` of start_download: the message is built and shown
\* with edit_text; if that raises, the new exception propagates.
Handler ==
  /\ pc = "handler"
  /\ \E reportOK \in BOOLEAN :
       /\ IF reportOK
          THEN /\ status' = Classify(exc)
               /\ obs' = [obs EXCEPT !.reported = exc]
               /\ exc' = NoError
          ELSE /\ exc' = EditError
               /\ UNCHANGED <<status, obs>>
       /\ pc' = AfterHandler(reportOK)
  /\ UNCHANGED <<transfers, api, catalog, requesters, update_queue, user_sessions, conv, offer, files, dl, up, hb, wall, loop_time>>

\* `if filepath and filepath.exists()`
ArtifactToDelete(filepath, disk) == filepath # None /\ filepath \in DOMAIN disk

\* `if user_id in user_sessions: del user_sessions[user_id]`
ClearSession(sessions, user_id) == Del(sessions, user_id)

\* The finally block: unlink the artifact (an unlink that raises is logged
\* and swallowed), then delete the session; start_download then returns, or
\* the pending exception propagates.
Finally ==
  /\ pc = "finally"
  /\ \E unlinkOK \in BOOLEAN :
       LET tried == ArtifactToDelete(dl.filepath, files) IN
       /\ files' = IF tried /\ unlinkOK THEN Del(files, dl.filepath) ELSE files
       /\ obs' = [obs EXCEPT !.cleanup =
                    @ \o (IF ~tried THEN <<>>
                          ELSE IF unlinkOK THEN <<"unlink">> ELSE <<"unlink failed">>)
                      \o <<"session">>]
  /\ user_sessions' = ClearSession(user_sessions, dl.user_id)
  /\ pc' = IF exc = NoError THEN "returned" ELSE "raised"
  /\ UNCHANGED <<transfers, api, catalog, requesters, update_queue, conv, offer, dl, up, hb, exc, wall, loop_time, status>>

\* The handler that awaited start_download ends: with ConversationHandler.END
\* if it returned; a handler that raised leaves the conversation state as it is.
HandlerEnd ==
  /\ pc \in {"returned", "raised"}
  /\ conv' = [conv EXCEPT ![dl.conv_key] = IF pc = "returned" THEN END ELSE @]
  /\ offer' = KeepOffers(conv')
  /\ pc' = "idle"
  /\ dl' = NoDl /\ up' = NoUp /\ hb' = << >> /\ obs' = NoObs
  /\ exc' = NoError
  /\ wall' = WallStart
  /\ loop_time' = 0
  /\ status' = None
  /\ UNCHANGED <<transfers, api, catalog, requesters, update_queue, user_sessions, files>>

Next ==
  \/ \E u \in requesters : download_command(u)
  \/ \E u \in requesters : handle_link(u)
  \/ \E u \in requesters : cancel(u)
  \/ \E u \in requesters : button_callback(u)
  \/ \E u \in requesters : handle_rename(u)
  \/ Connect
  \/ WallTick
  \/ ReadChunk
  \/ ReadFail
  \/ EndOfBody
  \/ SizeCheck
  \/ LoopTest
  \/ \E k \in 1..max_retries : HbStep(k)
  \/ \E k \in 1..max_retries : HbEditDone(k)
  \/ \E k \in 1..max_retries : HbWake(k)
  \/ LoopTick
  \/ SendDone
  \/ JoinOk
  \/ DeleteMsg
  \/ JoinErr
  \/ Backoff
  \/ Handler
  \/ Finally
  \/ HandlerEnd

Spec == Init /\ [][Next]_vars

\* An upload whose send_document calls last long enough for the heartbeat to
\* render more than once in an attempt
InitHeartbeat == InitWith({"http://h/stream"}, {1})

NextHeartbeat ==
  \/ \E u \in requesters : download_command(u)
  \/ \E u \in requesters : handle_link(u)
  \/ \E u \in requesters : cancel(u)
  \/ \E u \in requesters : button_callback(u)
  \/ \E u \in requesters : handle_rename(u)
  \/ Connect
  \/ ReadChunk
  \/ ReadFail
  \/ EndOfBody
  \/ SizeCheck
  \/ LoopTest
  \/ \E k \in 1..max_retries : HbStep(k)
  \/ \E k \in 1..max_retries : HbEditDone(k)
  \/ \E k \in 1..max_retries : HbWake(k)
  \/ LongTick
  \/ SendDone
  \/ JoinOk
  \/ DeleteMsg
  \/ JoinErr
  \/ Backoff
  \/ Handler
  \/ Finally
  \/ HandlerEnd

SpecHeartbeat == InitHeartbeat /\ [][NextHeartbeat]_vars

\* The steps of the coroutine of start_download: each is the return (or the
\* raise) of the call it awaits, or code that runs without awaiting
TransferStep ==
  \/ Connect \/ ReadChunk \/ ReadFail \/ EndOfBody \/ SizeCheck \/ LoopTest
  \/ SendDone \/ JoinOk \/ DeleteMsg \/ JoinErr \/ Backoff \/ Handler \/ Finally

\* The steps of the heartbeat task of attempt k
HeartbeatStep(k) == HbStep(k) \/ HbEditDone(k) \/ HbWake(k)

\* The event loop runs every coroutine that can go on, every awaited call
\* returns or raises, and the clock of the event loop advances.
Fairness ==
  /\ WF_vars(TransferStep)
  /\ \A k \in 1..max_retries : WF_vars(HeartbeatStep(k))
  /\ WF_vars(LoopTick)

\* One link whose transfer reaches the upload leg, under fair scheduling; the
\* requester sends the link and answers with the buttons.
\* The GET response has no Content-Length: no callback reads the wall clock,
\* so the clock is not followed.
InitFair == InitWith({"http://h/stream"}, {1})

NextFair ==
  \/ \E u \in requesters : handle_link(u)
  \/ \E u \in requesters : button_callback(u)
  \/ TransferStep
  \/ \E k \in 1..max_retries : HeartbeatStep(k)
  \/ LoopTick
  \/ HandlerEnd

SpecFair == InitFair /\ [][NextFair]_vars /\ Fairness

\* The large bodies: no callback reads the wall clock when the GET response
\* has no Content-Length, so the clock is not followed.
NextLarge ==
  \/ \E u \in requesters : download_command(u)
  \/ \E u \in requesters : handle_link(u)
  \/ \E u \in requesters : cancel(u)
  \/ \E u \in requesters : button_callback(u)
  \/ \E u \in requesters : handle_rename(u)
  \/ Connect
  \/ ReadChunk
  \/ ReadFail
  \/ EndOfBody
  \/ SizeCheck
  \/ LoopTest
  \/ \E k \in 1..max_retries : HbStep(k)
  \/ \E k \in 1..max_retries : HbEditDone(k)
  \/ \E k \in 1..max_retries : HbWake(k)
  \/ LoopTick
  \/ SendDone
  \/ JoinOk
  \/ DeleteMsg
  \/ JoinErr
  \/ Backoff
  \/ Handler
  \/ Finally
  \/ HandlerEnd

SpecLarge == InitLarge /\ [][NextLarge]_vars

\* A download that receives more bytes than the GET response declared
InitBar == InitWith(BarURLs, {1})

SpecBar == InitBar /\ [][Next]_vars

\* Uploads of a file below and of a file above the size at which the
\* timeouts reach their cap
InitTimeouts == InitWith(TimeoutURLs, {1})

SpecTimeouts == InitTimeouts /\ [][NextLarge]_vars

\* The requester of the running transfer sends /cancel: the update waits in
\* Application.update_queue, because the application (built without
\* concurrent_updates) takes the next update only when the running handler
\* has ended.
CancelArrives(u) ==
  /\ pc \in {"get", "streaming", "size_check", "loop", "sending",
             "join_ok", "join_err", "deleting", "backoff"}
  /\ u = dl.conv_key
  /\ u \notin update_queue
  /\ update_queue' = update_queue \cup {u}
  /\ UNCHANGED <<transfers, api, catalog, requesters, user_sessions, conv, offer, files, pc, dl, up, hb, exc, wall, loop_time, status, obs>>

\* The queued /cancel is dispatched: to cancel, the fallback of the
\* conversation, if the requester has a conversation; no handler matches it
\* otherwise.
CancelDispatch(u) ==
  /\ pc = "idle"
  /\ u \in update_queue
  /\ update_queue' = update_queue \ {u}
  /\ IF conv[u] # END
     THEN /\ user_sessions' = Del(user_sessions, UserOf(u))
          /\ \E replyOK \in BOOLEAN :
               /\ conv' = [conv EXCEPT ![u] = (IF replyOK THEN END ELSE @)]
               /\ offer' = KeepOffers(conv')
     ELSE UNCHANGED <<user_sessions, conv, offer>>
  /\ obs' = Observe([NoObs EXCEPT !.user = u, !.handler = "cancel"])
  /\ UNCHANGED <<transfers, api, catalog, requesters, files, pc, dl, up, hb, exc, wall, loop_time, status>>

\* A transfer during which its requester sends /cancel
InitCancel == InitWith({"http://h/stream"}, {1})

NextCancel ==
  \/ \E u \in requesters : download_command(u)
  \/ \E u \in requesters : handle_link(u)
  \/ \E u \in requesters : cancel(u)
  \/ \E u \in requesters : button_callback(u)
  \/ \E u \in requesters : handle_rename(u)
  \/ \E u \in requesters : CancelArrives(u)
  \/ \E u \in requesters : CancelDispatch(u)
  \/ Connect
  \/ WallTick
  \/ ReadChunk
  \/ ReadFail
  \/ EndOfBody
  \/ SizeCheck
  \/ LoopTest
  \/ \E k \in 1..max_retries : HbStep(k)
  \/ \E k \in 1..max_retries : HbEditDone(k)
  \/ \E k \in 1..max_retries : HbWake(k)
  \/ LoopTick
  \/ SendDone
  \/ JoinOk
  \/ DeleteMsg
  \/ JoinErr
  \/ Backoff
  \/ Handler
  \/ Finally
  \/ HandlerEnd

SpecCancel == InitCancel /\ [][NextCancel]_vars

\* The link submissions: one requester and the variety of HEAD answers of
\* LinkURLs. The GET of each of these fails, so a transfer ends in the
\* handler of start_download and no chunk is read.
InitLinks == InitWith(LinkURLs, {1})

NextLinks ==
  \/ \E u \in requesters : download_command(u)
  \/ \E u \in requesters : handle_link(u)
  \/ \E u \in requesters : cancel(u)
  \/ \E u \in requesters : button_callback(u)
  \/ \E u \in requesters : handle_rename(u)
  \/ Connect
  \/ Handler
  \/ Finally
  \/ HandlerEnd

SpecLinks == InitLinks /\ [][NextLinks]_vars

\* Links whose suggested name comes from the Content-Disposition header and
\* from the path of the URL
NameURLs == {"http://h/t", "http://h/a%20b.bin"}
InitNames == InitWith(NameURLs, {1})

SpecNames == InitNames /\ [][NextLinks]_vars

\* Two requesters, whose updates are handled one after the other
TwoURLs == {"http://h/dl.php", "http://h/r"}
InitTwo == InitWith(TwoURLs, Users)

SpecTwo == InitTwo /\ [][NextLinks]_vars

\* One requester who writes in two chats: two conversations, one user id
InitChats == InitWith(TwoURLs, {1, SecondChat + 1})

SpecChats == InitChats /\ [][NextLinks]_vars

\* ------------------------------------------------------------------ main
\* config.get(key, default)
use_local_api_default_true(config) ==
  IF config.has_use_local_api THEN config.use_local_api ELSE TRUE
use_local_api(config) ==
  IF config.has_use_local_api THEN config.use_local_api ELSE FALSE
local_api_url(config) ==
  IF config.has_local_api_url THEN config.local_api_url ELSE "http://localhost:8081"
official_api_url(config) ==
  IF config.has_official_api_url THEN config.official_api_url ELSE "https://api.telegram.org"

\* the api_config.json files of a start: none, one json.load cannot parse, and
\* records with each key present or absent
Configs ==
  {NoConfig, [NoConfig EXCEPT !.exists = TRUE, !.wellformed = FALSE]} \cup
  {[exists |-> TRUE, wellformed |-> TRUE,
    has_use_local_api |-> hf, use_local_api |-> hf /\ f,
    has_local_api_url |-> hl,
    local_api_url |-> IF hl THEN "http://10.0.0.5:8081" ELSE "",
    has_official_api_url |-> ho,
    official_api_url |-> IF ho THEN "https://tg.example" ELSE ""] :
   hf \in BOOLEAN, f \in BOOLEAN, hl \in BOOLEAN, ho \in BOOLEAN}

\* main up to run_polling. Without a token it prints and returns; a file
\* json.load cannot parse raises JSONDecodeError, which main does not catch.
main ==
  /\ pc = "main"
  /\ LET config == api.config IN
     IF ~api.token_ok
       THEN pc' = "exited" /\ UNCHANGED api
     ELSE IF ~config.exists
       THEN /\ api' = [api EXCEPT !.base_url = "https://api.telegram.org/bot"]
            /\ pc' = "idle"
     ELSE IF ~config.wellformed
       THEN pc' = "crashed" /\ UNCHANGED api
     ELSE /\ api' = [api EXCEPT !.base_url =
                       IF use_local_api(config) THEN BotURL(local_api_url(config))
                                                ELSE BotURL(official_api_url(config))]
          /\ pc' = "idle"
  /\ UNCHANGED <<transfers, catalog, requesters, update_queue, user_sessions, conv, offer, files, dl, up, hb, exc, wall, loop_time, status, obs>>

\* A start of the bot with each configuration, followed by the conversation
\* of one requester
InitMain ==
  /\ api \in {[token_ok |-> t, config |-> c, base_url |-> None] :
                t \in BOOLEAN, c \in Configs}
  /\ catalog = {"http://h/dl.php"}
  /\ requesters = {1}
  /\ update_queue = {}
  /\ user_sessions = << >>
  /\ conv = [u \in {1} |-> END]
  /\ offer = [u \in {1} |-> NoOffer]
  /\ files = << >>
  /\ pc = "main"
  /\ dl = NoDl /\ up = NoUp /\ hb = << >> /\ obs = NoObs
  /\ exc = NoError
  /\ wall = WallStart
  /\ loop_time = 0
  /\ status = None
  /\ transfers = 0

NextMain ==
  \/ main
  \/ \E u \in requesters : download_command(u)
  \/ \E u \in requesters : handle_link(u)
  \/ \E u \in requesters : cancel(u)
  \/ \E u \in requesters : button_callback(u)
  \/ \E u \in requesters : handle_rename(u)
  \/ Connect
  \/ Handler
  \/ Finally
  \/ HandlerEnd

SpecMain == InitMain /\ [][NextMain]_vars

\* ------------------------------------------------------------- launchers
\* setup_config of deploy.py and of run_pella.py (the same text): the record
\* it writes to api_config.json. use_local_api is the truth value of the
\* argument, which is what the bot reads from the key.
setup_config(use_local) ==
  [exists |-> TRUE, wellformed |-> TRUE,
   has_use_local_api |-> TRUE, use_local_api |-> use_local,
   has_local_api_url |-> TRUE, local_api_url |-> "http://localhost:8081",
   has_official_api_url |-> TRUE, official_api_url |-> "https://api.telegram.org"]

\* run_local_api_server: None without credentials; otherwise the process if
\* it answers on port 8081 after it was spawned (started), else None
run_local_api_server(api_id, api_hash, started) ==
  IF ~api_id \/ ~api_hash THEN None
  ELSE IF started THEN "process" ELSE None

\* run_bot_with_local_api of run_pella.py reads the credentials again and
\* writes the configuration before it runs the bot
run_bot_with_local_api(api_id, api_hash) ==
  IF ~api_id \/ ~api_hash THEN setup_config(FALSE) ELSE setup_config(TRUE)

\* The command lines of deploy.py, and the environments of run_pella.py: for
\* each option or variable, whether it is given (and not empty)
LaunchArgs ==
  [bot_token : BOOLEAN, api_id : BOOLEAN, api_hash : BOOLEAN, use_local_api : BOOLEAN,
   setup_only : BOOLEAN, run_bot : BOOLEAN, run_api : BOOLEAN]

\* main of deploy.py up to the call of run_bot, or to its return without one.
\* token_ok: BOT_TOKEN is in the environment of the bot. installOK:
\* install_dependencies succeeds; started: the spawned server answers.
deploy_main ==
  /\ pc = "launch"
  /\ api.launcher = "deploy.py"
  /\ \E installOK \in BOOLEAN, started \in BOOLEAN :
       LET args == api.args
           env == [api EXCEPT !.token_ok = @ \/ args.bot_token]
           use_local == args.use_local_api \/ (args.api_id /\ args.api_hash)
           configured == [env EXCEPT !.config = setup_config(use_local)]
           api_process == run_local_api_server(args.api_id, args.api_hash, started)
       IN IF ~installOK \/ args.setup_only
          THEN api' = env /\ pc' = "exited"
          ELSE IF args.run_bot
          THEN api' = configured /\ pc' = "main"
          ELSE IF args.run_api
          THEN /\ api' = [configured EXCEPT !.api_process = api_process]
               /\ pc' = "exited"
          ELSE IF use_local /\ args.api_id /\ args.api_hash
          THEN /\ api' = [configured EXCEPT
                            !.api_process = api_process,
                            !.config = IF api_process = None THEN setup_config(FALSE) ELSE @]
               /\ pc' = "main"
          ELSE api' = configured /\ pc' = "main"
  /\ UNCHANGED <<transfers, catalog, requesters, update_queue, user_sessions, conv, offer, files, dl, up, hb, exc, wall, loop_time, status, obs>>

\* main of run_pella.py up to the call of run_bot, or to sys.exit(1)
run_pella_main ==
  /\ pc = "launch"
  /\ api.launcher = "run_pella.py"
  /\ \E started \in BOOLEAN :
       LET args == api.args
           env == [api EXCEPT !.token_ok = args.bot_token]
           api_process == run_local_api_server(args.api_id, args.api_hash, started)
       IN IF ~args.bot_token
          THEN api' = api /\ pc' = "exited"
          ELSE IF args.api_id /\ args.api_hash
          THEN /\ api' = [env EXCEPT
                            !.api_process = api_process,
                            !.config = IF api_process = None THEN setup_config(FALSE)
                                       ELSE run_bot_with_local_api(args.api_id, args.api_hash)]
               /\ pc' = "main"
          ELSE /\ api' = [env EXCEPT !.config = setup_config(FALSE)]
               /\ pc' = "main"
  /\ UNCHANGED <<transfers, catalog, requesters, update_queue, user_sessions, conv, offer, files, dl, up, hb, exc, wall, loop_time, status, obs>>

\* The starts of a launcher: deploy.py with each command line, with or
\* without BOT_TOKEN in its environment, and run_pella.py with each
\* environment; api_config.json is absent or left by an earlier run.
Launches ==
  {[launcher |-> "deploy.py", args |-> a, token_ok |-> t, config |-> c,
    base_url |-> None, api_process |-> None] :
     a \in LaunchArgs, t \in BOOLEAN, c \in {NoConfig, setup_config(TRUE)}}
  \cup
  {[launcher |-> "run_pella.py", args |-> a, token_ok |-> FALSE, config |-> c,
    base_url |-> None, api_process |-> None] :
     a \in {x \in LaunchArgs : ~x.use_local_api /\ ~x.setup_only /\ ~x.run_bot /\ ~x.run_api},
     c \in {NoConfig, setup_config(TRUE)}}

InitLaunch ==
  /\ api \in Launches
  /\ catalog = {"http://h/dl.php"}
  /\ requesters = {1}
  /\ update_queue = {}
  /\ user_sessions = << >>
  /\ conv = [u \in {1} |-> END]
  /\ offer = [u \in {1} |-> NoOffer]
  /\ files = << >>
  /\ pc = "launch"
  /\ dl = NoDl /\ up = NoUp /\ hb = << >> /\ obs = NoObs
  /\ exc = NoError
  /\ wall = WallStart
  /\ loop_time = 0
  /\ status = None
  /\ transfers = 0

\* A launcher run, then the start of the bot it runs
NextLaunch ==
  \/ deploy_main
  \/ run_pella_main
  \/ main

SpecLaunch == InitLaunch /\ [][NextLaunch]_vars

\* ------------------------------------------------------------ properties
Terminal == pc \in {"returned", "raised"}
AllFailed == obs.sends = <<"fail", "fail", "fail">>

\* C1: whenever start_download returns, no file exists at the artifact path
\* DOWNLOAD_DIR/filename.
C1_NoOrphanFile == pc = "returned" => dl.filename \notin DOMAIN files

\* C2: on every exit path of a transfer, when start_download returns or
\* raises, the requester's entry is absent from user_sessions.
C2_SessionGone == Terminal => dl.user_id \notin DOMAIN user_sessions

\* the failure report itself raised, and start_download propagates it
C2_Witness == pc = "raised" /\ exc = EditError /\ dl.user_id \notin DOMAIN user_sessions

C4_AtMostThreeAndOnce ==
  /\ Len(obs.sends) <= 3
  /\ \A i \in 1..Len(obs.sends) : obs.sends[i] = "ok" => i = Len(obs.sends)

\* the send succeeded, status_msg.delete() raised, and the loop was left
C4_Witness ==
  /\ pc = "finally" /\ up.upload_success /\ up.retry_count > 0
  /\ obs.sends = <<"fail", "ok">>

C6_ThirdError ==
  AllFailed =>
    /\ pc = "handler" => exc.attempt = 3 /\ exc \in SendErrors(3)
    /\ obs.reported # NoError => obs.reported.attempt = 3 /\ status = Classify(obs.reported)
    /\ pc \in {"finally", "returned", "raised"} => obs.reported # NoError \/ exc = EditError

C6_Witness ==
  /\ AllFailed /\ pc = "returned"
  /\ obs.reported = Err("TimedOut", "Timed out", 3) /\ status = "timeout"

\* C7: a heartbeat task is created at the start of each attempt and has ended
\* before the attempt concludes: at most one is alive, the one of the attempt
\* in flight; none is alive in a backoff wait or after the loop; no task
\* renders outside its own attempt.
C7_Heartbeat ==
  /\ Cardinality(Alive) <= 1
  /\ DOMAIN hb = 1..obs.attempts
  /\ pc = "sending" => Alive = {obs.attempts}
  /\ pc \notin {"sending", "join_ok", "join_err"} => Alive = {}
  /\ ~obs.stale_render

\* the task of the second attempt renders; the task of the first has ended
C7_Witness ==
  /\ pc = "sending" /\ obs.attempts = 2
  /\ hb[2].state = "editing" /\ hb[1].state = "finished"

\* C8: with a known total, the progress callback emits at most one status
\* update for each 2% bucket.
C8_OncePerBucket == obs.emit_count <= 1

\* C9: while a download is in progress, no more than 5 seconds pass without
\* an emitted progress update.
C9_UpdateEveryFiveSeconds == pc = "streaming" => wall - obs.last_emit_wall <= 5

\* C10: the progress callback has been called after every chunk written, with
\* the bytes written so far and the declared total (zero if none is declared).
C10_CallbackAfterEveryChunk ==
  pc = "streaming" =>
    /\ obs.cb_calls = obs.chunks
    /\ obs.chunks > 0 => obs.cb_last = <<dl.downloaded, dl.total_size>>

\* C11: once the requester's /cancel has been issued during their transfer,
\* the transfer starts no further upload attempt.
C11_CancelStopsUploads == [][dl.user_id \in update_queue => obs'.attempts <= obs.attempts]_vars

\* C12: an upload attempt starts only after download_file has returned with
\* the whole body written, and the size measured is the size of the complete
\* artifact; no step of the download leg runs once an attempt has started.
C12_LegsDoNotOverlap ==
  obs.attempts > 0 =>
    /\ pc \notin {"get", "streaming", "size_check"}
    /\ dl.filepath = dl.filename
    /\ up.file_size = BodySize(Resource(dl.url).body)
    /\ dl.filepath \in DOMAIN files => files[dl.filepath] = up.file_size

\* the first send_document is in flight for the complete 2560 KiB artifact
C12_Witness ==
  /\ pc = "sending" /\ obs.attempts = 1 /\ dl.url = "http://h/stream"
  /\ up.file_size = 2 * 1024 + 512 /\ files[dl.filepath] = 2 * 1024 + 512

\* C14: validate_link accepts a URL exactly when it is well-formed, its scheme
\* is http or https, the HEAD probe completes with a status below 400, and
\* Content-Disposition is present or Content-Length is present or the content
\* type is not HTML; when none of the three holds it rejects the URL as a web
\* page.
C14_ValidateLink ==
  obs.link.verdict # "none" =>
    LET r == Resource(obs.link.url)
        probed == /\ r.wellformed /\ r.scheme_http
                  /\ obs.link.probe = "ok" /\ r.head_status < 400
    IN /\ obs.link.verdict = "ok" <=>
            /\ probed
            /\ \/ r.content_disposition # ""
               \/ r.content_length # NoLength
               \/ ~r.html
       /\ (probed /\ r.content_disposition = "" /\ r.content_length = NoLength /\ r.html)
            => obs.link.verdict = "web_page"

\* a link answered with Content-Type text/html and a Content-Length is accepted
C14_Witness ==
  /\ obs.link.url = "http://h/dl.php" /\ obs.link.probe = "ok"
  /\ obs.link.verdict = "ok" /\ conv[obs.user] = WAITING_FOR_FILENAME

\* the reasons validate_link gives for a rejection
RejectionReasons == {"invalid_format", "bad_scheme", "http_error", "web_page", "timeout", "probe_error"}

\* C15: a link submission that validation rejects leaves user_sessions as it
\* was, and its reason is shown and the conversation is in WAITING_FOR_LINK
\* (if the edit_text that carries the reason raises, the conversation is left
\* as it was); a probe timeout and an HTTP error status give different reasons.
C15_RejectedLink ==
  [][obs'.link.verdict \notin {"none", "ok"} =>
       LET l == obs'.link
           r == Resource(l.url)
       IN /\ user_sessions' = user_sessions
          /\ l.verdict \in RejectionReasons
          /\ l.failedEdits = 0 => conv'[obs'.user] = WAITING_FOR_LINK /\ l.shown = l.verdict
          /\ l.failedEdits > 0 => conv' = conv
          /\ (r.wellformed /\ r.scheme_http /\ l.probe = "timeout") => l.verdict = "timeout"
          /\ (r.wellformed /\ r.scheme_http /\ l.probe = "ok" /\ r.head_status >= 400)
               => l.verdict = "http_error"
          /\ pc' = "idle"]_vars

\* a link is rejected for a probe timeout while the requester has a session
C15_Witness ==
  /\ obs.link.verdict = "timeout" /\ obs.link.shown = "timeout"
  /\ obs.user \in DOMAIN user_sessions /\ conv[obs.user] = WAITING_FOR_LINK

\* the name the resolution order gives for each accepted link of LinkURLs:
\* the decoded filename parameter, else the decoded last path segment, else
\* the fallback
NameByOrder(url) ==
  CASE url = "http://h/r" -> "q r.bin"
    [] url = "http://h/dl.php" -> "dl.php"
    [] url = "http://h/inline" -> "inline"
    [] url = "http://h/a%20b.bin" -> "a b.bin"
    [] url = "http://h/e.bin" -> "e.bin"
    [] url = "http://h/raw" -> "raw"
    [] url = "http://h/gone" -> "gone"
    [] OTHER -> "downloaded_file"

\* C16: when the metadata probe answers, the name stored for an accepted link
\* is the filename parameter of Content-Disposition (decoded) if the header
\* has one, else the last path segment (decoded) if it is not empty, else
\* "downloaded_file"; a later source is used only when the earlier ones
\* yield nothing.
C16_FilenameOrder ==
  (obs.link.verdict = "ok" /\ obs.link.fnOK) =>
    user_sessions[obs.user].original_filename = NameByOrder(obs.link.url)

\* C17: once a link is accepted, no outcome of the metadata probe aborts the
\* submission: the session is stored, with "downloaded_file" if the HEAD
\* request for the name fails or finds no name, and with an unknown size
\* (None or 0) if the HEAD request for the size fails or Content-Length is
\* missing or not a number; the conversation is in WAITING_FOR_FILENAME once
\* the keyboard is shown.
C17_ProbeFailureNotFatal ==
  obs.link.verdict = "ok" =>
    LET l == obs.link
        r == Resource(l.url)
    IN /\ obs.user \in DOMAIN user_sessions
       /\ user_sessions[obs.user].url = l.url
       /\ (~l.fnOK \/ l.url = "http://h/") =>
             user_sessions[obs.user].original_filename = "downloaded_file"
       /\ (~l.szOK \/ r.content_length = BadLength) => user_sessions[obs.user].file_size = NoneInt
       /\ (l.szOK /\ r.content_length = NoLength) => user_sessions[obs.user].file_size = 0
       /\ l.failedEdits = 0 => conv[obs.user] = WAITING_FOR_FILENAME /\ l.shown = "validated"

\* both HEAD requests of the probe failed and the submission went on
C17_Witness ==
  /\ obs.link.verdict = "ok" /\ ~obs.link.fnOK /\ ~obs.link.szOK
  /\ user_sessions[obs.user] = [url |-> "http://h/dl.php", original_filename |-> "downloaded_file",
                                 file_size |-> NoneInt]
  /\ conv[obs.user] = WAITING_FOR_FILENAME

\* the rename inputs that are non-empty after trimming and have no '/' or '\\'
ValidRenames == {"movie_final.mkv", " movie_final.mkv "}

\* C18: for a requester with a session, handle_rename starts a download with
\* the trimmed name exactly when the name is non-empty after trimming and has
\* neither '/' nor '\\'; for any other name no download starts, user_sessions
\* is unchanged and the conversation stays in WAITING_FOR_FILENAME.
C18_RenameValidation ==
  [][(pc = "idle" /\ obs'.rename.asked /\ obs'.rename.replyOK
        /\ obs'.user \in DOMAIN user_sessions) =>
       IF obs'.rename.text \in ValidRenames
       THEN /\ pc' = "get"
            /\ dl'.user_id = obs'.user
            /\ dl'.filename = "movie_final.mkv"
            /\ dl'.url = user_sessions[obs'.user].url
       ELSE /\ pc' = "idle"
            /\ dl' = dl
            /\ user_sessions' = user_sessions
            /\ conv'[obs'.user] = WAITING_FOR_FILENAME]_vars

\* a name with surrounding blanks was accepted and its download has started
C18_Witness ==
  /\ pc = "get" /\ obs.rename.text = " movie_final.mkv " /\ dl.filename = "movie_final.mkv"

\* the requester for whom a step is performed
Actor ==
  IF pc # "idle" THEN dl.user_id
  ELSE IF pc' = "idle" THEN obs'.user ELSE dl'.user_id

\* the session an accepted submission of link l stores
SessionOf(l) ==
  [url |-> l.url,
   original_filename |-> IF ~l.fnOK THEN "downloaded_file"
                         ELSE IF l.url = "http://h/r" THEN "q r.bin" ELSE "dl.php",
   file_size |-> IF ~l.szOK THEN NoneInt
                 ELSE IF l.url = "http://h/r" THEN 0 ELSE 1000]

\* C19: user_sessions has one entry per requester at most; an accepted link
\* submission leaves the requester's entry equal to the new url, name and
\* size, whatever it held before; and no step changes the entry of a
\* requester other than the one it is performed for.
C19_SessionStore ==
  [][/\ DOMAIN user_sessions' \subseteq requesters
     /\ (pc = "idle" /\ obs'.link.verdict = "ok") =>
           /\ obs'.user \in DOMAIN user_sessions'
           /\ user_sessions'[obs'.user] = SessionOf(obs'.link)
     /\ \A v \in requesters \ {Actor} :
           /\ v \in DOMAIN user_sessions' <=> v \in DOMAIN user_sessions
           /\ v \in DOMAIN user_sessions => user_sessions'[v] = user_sessions[v]]_vars

\* the submission of requester 1 is stored while requester 2 holds another session
C19_Witness ==
  /\ obs.user = 1 /\ obs.link.verdict = "ok" /\ obs.link.url = "http://h/r"
  /\ conv[1] = WAITING_FOR_FILENAME
  /\ 2 \in DOMAIN user_sessions /\ user_sessions[2].url = "http://h/dl.php"
  /\ user_sessions[1] = [url |-> "http://h/r", original_filename |-> "q r.bin", file_size |-> 0]

\* C20: an exception of the edit_text of a progress update or of the heartbeat
\* is never the exception of the transfer, never the error of an upload
\* attempt, and never ends a heartbeat task; the download leg is left for the
\* handler only by a read error, and an attempt fails only by the error of
\* send_document or of status_msg.delete().
C20_EditFailureSwallowed ==
  [][/\ exc' # ProgressEditError
     /\ up'.upload_error # ProgressEditError
     /\ obs'.reported # ProgressEditError
     /\ \A k \in DOMAIN hb' : hb'[k].state # "crashed"
     /\ (pc = "streaming" /\ pc' # "streaming") =>
           \/ pc' = "size_check"
           \/ pc' = "handler" /\ exc' \in ReadErrors
     /\ (pc = "sending" /\ pc' # "sending") =>
           \/ pc' = "join_ok"
           \/ pc' = "join_err" /\ up'.upload_error \in SendErrors(obs.attempts)
     /\ up'.retry_count > up.retry_count =>
           up.upload_error \in SendErrors(obs.attempts) \cup {DeleteError(obs.attempts)}]_vars

\* the edit_text of the first progress update raised, nothing was shown, and
\* the download has gone on to its second chunk
C20_Witness ==
  /\ pc = "streaming" /\ dl.pos = 2 /\ dl.last_update_time > 0
  /\ status = "starting" /\ exc = NoError

\* C21: a report headed "Upload Failed" is shown only for a transfer whose
\* three upload attempts have failed; a transfer that failed before any
\* send_document call gets no such report.
C21_UploadFailureOnlyAfterUploads ==
  (obs.reported # NoError /\ ReportHeading(obs.reported) = "Upload Failed") => AllFailed

\* a send_document call of the transfer has succeeded
Delivered == \E i \in 1..Len(obs.sends) : obs.sends[i] = "ok"

\* C22: once a send_document call has succeeded, no backoff wait is taken, no
\* exception reaches the handler of start_download and no failure report is
\* shown.
C22_SuccessEndsDone ==
  Delivered => /\ pc \notin {"backoff", "handler"}
               /\ obs.reported = NoError

\* main got past the token check and json.load
Started == pc \notin {"main", "exited", "crashed"}

\* C23: after start-up the base URL is the local one exactly when
\* api_config.json exists and its use_local_api is true; with no file, or with
\* the key absent or false, it is the official one and main reaches
\* run_polling.
C23_EndpointChoice ==
  LET c == api.config
      local == c.exists /\ c.has_use_local_api /\ c.use_local_api
  IN  /\ (pc # "main" /\ api.token_ok /\ (c.exists => c.wellformed /\ ~local)) =>
           /\ Started
           /\ api.base_url \in {"https://api.telegram.org/bot", "https://tg.example/bot"}
           /\ api.base_url = "https://tg.example/bot" <=>
                 (c.exists /\ c.has_official_api_url)
      /\ (pc # "main" /\ api.token_ok /\ c.wellformed /\ local) =>
           /\ Started
           /\ api.base_url \in {"http://localhost:8081/bot", "http://10.0.0.5:8081/bot"}
           /\ api.base_url = "http://10.0.0.5:8081/bot" <=> c.has_local_api_url
      /\ Started /\ api.base_url \in {"http://localhost:8081/bot", "http://10.0.0.5:8081/bot"}
           => local

\* started on the official endpoint from a record that has no use_local_api
\* key, and a requester's link was then accepted
C23_Witness ==
  /\ Started /\ api.config.exists /\ ~api.config.has_use_local_api
  /\ api.base_url = "https://api.telegram.org/bot"
  /\ conv[1] = WAITING_FOR_FILENAME

\* C24: the sample that follows an update emitted by the 5-second floor alone,
\* has the same integer percentage and comes less than 5 seconds later emits
\* no update.
C24_NoDuplicateAfterFloor == ~obs.floor_dup

\* C25: while a body of unknown total size is received, no more than 10 MB
\* have come in since the last update was emitted, and the byte watermark is
\* the byte count of that update.
C25_UnknownTotalStep ==
  (pc = "streaming" /\ dl.total_size = 0) =>
     /\ dl.downloaded - obs.emit_bytes <= UNKNOWN_STEP
     /\ dl.last_progress = obs.emit_bytes

\* C26: the elapsed times the heartbeat of one attempt renders are at least
\* 2 seconds apart, and each is counted from the start of its own attempt: it
\* is no more than the time that has passed since the attempt began.
C26_HeartbeatPacing ==
  /\ \A i \in 1..(Len(obs.rendered) - 1) : obs.rendered[i + 1] - obs.rendered[i] >= 2
  /\ \A i \in 1..Len(obs.rendered) :
       /\ obs.rendered[i] >= 0
       /\ obs.rendered[i] <= loop_time - obs.attempt_start

\* the heartbeat of the second attempt has rendered twice
C26_Witness ==
  /\ obs.attempts = 2
  /\ Len(obs.rendered) = 2
  /\ obs.sends = <<"fail">>

\* artifact sizes (KiB) around the ends of the range and the cap
SampleSizes == {0, 1, 1000, 659999, 660000, 660001, 2097152}

\* C27: while send_document is awaited, its read and write timeouts are equal
\* and are min(size / 102400 + 600, 7200) seconds for the size of the
\* artifact, between 600 and 7200 seconds, the same in every attempt of the
\* transfer, no less than the timeout of any smaller size and no more than
\* that of any larger one; the connect timeout is 60 seconds. (Sizes are in
\* KiB and timeouts in hundredths of a second.)
C27_Timeouts ==
  pc = "sending" =>
    /\ up.read_timeout = up.write_timeout
    /\ up.read_timeout = IF up.file_size + 60000 <= 720000
                         THEN up.file_size + 60000 ELSE 720000
    /\ up.read_timeout >= 60000 /\ up.read_timeout <= 720000
    /\ up.connect_timeout = 6000
    /\ obs.timeouts = {<<up.read_timeout, up.write_timeout, 6000>>}
    /\ \A s \in SampleSizes :
         /\ s <= up.file_size => /\ read_timeout(s) <= up.read_timeout
                                 /\ write_timeout(s) <= up.write_timeout
         /\ s >= up.file_size => /\ read_timeout(s) >= up.read_timeout
                                 /\ write_timeout(s) >= up.write_timeout

\* the second attempt to send a file of 2 GiB, with the timeouts at the cap
C27_Witness ==
  /\ pc = "sending" /\ obs.attempts = 2
  /\ up.file_size = MAX_TELEGRAM_SIZE
  /\ up.read_timeout = 720000

\* C28: when a transfer has ended its cleanup has run once: the deletion of
\* the file at the artifact path, made if the file exists, and after it the
\* deletion of the requester's session, made also when the file could not be
\* deleted.
C28_CleanupOrder ==
  Terminal =>
    /\ obs.cleanup \in {<<"session">>, <<"unlink", "session">>, <<"unlink failed", "session">>}
    /\ obs.cleanup = <<"session">> => dl.filename \notin DOMAIN files
    /\ dl.user_id \notin DOMAIN user_sessions

\* C29: after a first or a second send_document call has failed and none has
\* succeeded, whatever the error was, the transfer is on its way to a further
\* attempt: it joins the heartbeat, waits 10 seconds per failed call, passes
\* the loop test or is sending again; nothing is reported and the handler of
\* start_download is not entered.
C29_EveryErrorRetried ==
  obs.sends \in {<<"fail">>, <<"fail", "fail">>} =>
    /\ pc \in {"join_err", "backoff", "loop", "sending"}
    /\ obs.reported = NoError
    /\ pc = "backoff" => up.wait_time = 10 * Len(obs.sends)
    /\ pc = "loop" => up.retry_count = Len(obs.sends) /\ ~up.upload_success
    /\ pc = "sending" => obs.attempts = Len(obs.sends) + 1

\* the third attempt is in flight after a second one that failed with an
\* error that is neither a network error nor a timeout
C29_Witness ==
  /\ pc = "sending" /\ obs.attempts = 3
  /\ obs.sends = <<"fail", "fail">>
  /\ up.upload_error = Err("BadRequest", "File must be non-empty", 2)

\* the transfer has called session.get
PastGet == pc \in {"streaming", "size_check", "loop", "sending", "join_ok", "join_err",
                   "deleting", "backoff", "handler", "finally", "returned", "raised"}

\* C30: a GET answered with a status outside 200..299 makes download_file
\* raise an exception whose message names that status, with DOWNLOAD_DIR left
\* as it was; and a transfer calls session.get once, whatever follows.
C30_HttpErrorNoRetry ==
  /\ [][(/\ pc = "get" /\ pc' # "get"
          /\ exc' # ConnectError
          /\ Resource(dl.url).get_status \notin 200..299)
        => /\ pc' = "handler"
           /\ files' = files
           /\ exc'.type = "Exception"
           /\ Resource(dl.url).get_status = 403 => exc'.msg = "HTTP 403: Failed to download file"
           /\ Resource(dl.url).get_status = 404 => exc'.msg = "HTTP 404: Failed to download file"
           /\ Resource(dl.url).get_status \in {403, 404}]_vars
  /\ [](PastGet => obs.gets = 1)
  /\ [](pc = "get" => obs.gets = 0)

\* a transfer has ended after its one GET was answered 404 and the error was
\* reported
C30_Witness ==
  /\ pc = "returned"
  /\ obs.gets = 1
  /\ obs.reported.msg = "HTTP 404: Failed to download file"

\* C31: a button press or a rename text of a requester who has no entry in
\* user_sessions is answered with the session-expired message and ends the
\* conversation (if sending that message raises, the conversation is left as
\* it was); no transfer starts, nothing is downloaded or uploaded and
\* user_sessions is unchanged.
C31_SessionExpired ==
  [][(/\ pc = "idle"
      /\ obs'.handler \in {"button_callback", "handle_rename"}
      /\ obs'.user \notin DOMAIN user_sessions)
     => /\ obs'.expired \in {"shown", "raised"}
        /\ obs'.expired = "shown" => conv'[obs'.user] = END
        /\ obs'.expired = "raised" => conv' = conv
        /\ pc' = "idle"
        /\ transfers' = transfers
        /\ dl' = dl /\ up' = up /\ files' = files /\ status' = status
        /\ user_sessions' = user_sessions]_vars

\* a rename text sent after the transfer of the requester had raised and
\* removed the session was answered with the session-expired message
C31_Witness ==
  /\ obs.handler = "handle_rename" /\ obs.expired = "shown"
  /\ transfers = 1
  /\ conv[obs.user] = END
  /\ obs.user \notin DOMAIN user_sessions

\* the links of the catalog that validate_link accepts when the probe answers
AcceptedLinks == {url \in LinkURLs : \E probe \in ProbeOutcomes : validate_link(url, probe) = "ok"}

\* C32: a transfer starts only from a conversation that waits for the name
\* choice after a link accepted in it, for a requester whose session is
\* stored and holds a link that validation accepted, and by a default button
\* press or a valid rename text of that requester; it downloads the url of
\* that session, under the name of the session for the button and under the
\* trimmed rename text otherwise, and keeps that url and that name to its end.
C32_DownloadOnlyAfterChoice ==
  [][/\ (pc # "idle" /\ pc' # "idle") => (dl'.url = dl.url /\ dl'.filename = dl.filename)
     /\ (pc = "idle" /\ pc' = "get") =>
          LET k == dl'.conv_key
              u == dl'.user_id
          IN /\ k \in requesters /\ u = UserOf(k) /\ obs'.user = k
             /\ conv[k] = WAITING_FOR_FILENAME
             /\ offer[k] # NoOffer /\ offer[k].url \in AcceptedLinks
             /\ u \in DOMAIN user_sessions
             /\ user_sessions[u].url \in AcceptedLinks
             /\ dl'.url = user_sessions[u].url
             /\ IF obs'.handler = "button_callback"
                THEN dl'.filename = user_sessions[u].original_filename
                ELSE /\ obs'.handler = "handle_rename"
                     /\ obs'.rename.text \in ValidRenames
                     /\ dl'.filename = "movie_final.mkv"
             /\ transfers' = transfers + 1]_vars

\* a transfer started by the default button in the second chat of the
\* requester, for the link last accepted there
C32_Witness ==
  /\ pc = "get" /\ dl.conv_key = SecondChat + 1 /\ dl.user_id = 1
  /\ obs.handler = "button_callback"
  /\ dl.url = "http://h/r" /\ dl.filename = "q r.bin"
  /\ user_sessions[1].url = "http://h/r"

\* C33: every rendered progress bar has 15 cells, floor(15 * percent / 100) of
\* them filled, whatever the percentage of the sample.
C33_BarWidth ==
  obs.bar.progress >= 0 =>
    /\ obs.bar.filled + obs.bar.empty = 15
    /\ obs.bar.filled = (15 * obs.bar.progress) \div 100

\* C34: the filename of every download that has started contains no path
\* separator, whether it is the suggested name or an override.
C34_NoSeparatorInFilename ==
  pc # "idle" => ~HasSeparator(dl.filename)

\* C35: the status message is deleted only after the heartbeat task of the
\* attempt has ended (status_msg.delete() is reached with that task finished),
\* and no heartbeat task starts an edit once the message is deleted.
C35_DeleteAfterHeartbeat ==
  /\ [](pc = "deleting" => /\ ~up.animation_active
                            /\ hb[obs.attempts].state = "finished")
  /\ [](status = "deleted" => Alive = {})
  /\ [][\A k \in DOMAIN hb :
          (k \in DOMAIN hb' /\ hb[k].state # "editing" /\ hb'[k].state = "editing")
            => status # "deleted" /\ status' # "deleted"]_vars

\* the message is deleted after a heartbeat that rendered during the upload
C35_Witness ==
  /\ status = "deleted" /\ up.upload_success
  /\ obs.rendered # <<>> /\ hb[obs.attempts].state = "finished"

\* C36: between updates, every conversation in WAITING_FOR_FILENAME has a
\* session of its requester in user_sessions, and that session holds the link
\* submitted in that conversation.
C36_WaitingHasSession ==
  pc = "idle" =>
    \A k \in requesters :
      conv[k] = WAITING_FOR_FILENAME =>
        /\ UserOf(k) \in DOMAIN user_sessions
        /\ user_sessions[UserOf(k)].url = offer[k].url

\* C37: from every point of a transfer that has started, start_download
\* reaches a terminal state (so no wait for a heartbeat task lasts forever);
\* the loop runs at most three attempts and two backoff waits; a wait for the
\* heartbeat task is entered with its flag cleared and left with the task ended.
C37_TransferTerminates ==
  /\ [](obs.attempts <= max_retries /\ Len(obs.waited) <= max_retries - 1)
  /\ [](pc \in {"join_ok", "join_err"} => ~up.animation_active)
  /\ [](pc \in {"deleting", "backoff"} => hb[obs.attempts].state = "finished")
  /\ (pc \notin {"idle", "returned", "raised"}) ~> Terminal

\* the third attempt has failed after two backoff waits, and its heartbeat
\* task is asleep when the wait for it begins
C37_Witness ==
  /\ pc = "join_err" /\ obs.attempts = 3 /\ Len(obs.waited) = 2
  /\ hb[3].state = "sleeping" /\ loop_time < hb[3].wake

\* C38: when a launcher starts the bot, the configuration has use_local_api
\* true only if this launcher run started a local API server successfully.
C38_LocalOnlyIfServerStarted ==
  pc = "main" => (use_local_api(api.config) => api.api_process # None)

====
